---- MODULE Spec2Model ----
(***************************************************************************)
(* Linear-hashing set ADS_set<Key, N> (src/ADS_set.h).                     *)
(*                                                                         *)
(* An index is a record with the fields of the class.  table is the array  *)
(* of buckets; the bucket the code calls table[i] is table[i + 1] here,    *)
(* slot j of a bucket is values[j + 1].  Slots past values_size are dead   *)
(* storage and are not kept.  Keys are integers hashed by std::hash<int>,  *)
(* which is the identity.                                                  *)
(***************************************************************************)
EXTENDS Integers, Sequences, FiniteSets, TLC

\* ---- bounds of the model ------------------------------------------------
MaxKey == 5
MaxRound == 2
MaxJunk == 1
\* the instantiations ADS_set<int, N> that are checked have N in 1 .. BucketN
BucketN == 2
\* keys of the runs with two indices
MaxPairKey == 1
\* last split round of the runs with two indices
MaxPairRound == 2
\* largest key of the runs that insert in ascending order
MaxScenarioKey == 11
\* the default of the template parameter N
DefaultN == 5

Keys == 0 .. MaxKey
\* what a read of the size field one past the end of the table may yield
Junk == 0 .. MaxJunk

VARIABLES
    a,      \* the index under test
    b,      \* a second index (swap, move construction, operator==)
    N,      \* template parameter N of the instantiation
    ref,    \* the mathematical set a is meant to represent
    refb,   \* the mathematical set b is meant to represent
    op,     \* name of the last public operation
    arg,    \* its key argument
    ret,    \* what it returned
    stack   \* the calls of insert() and split() in progress, innermost last

vars == <<a, b, N, ref, refb, op, arg, ret, stack>>

\* ---- Bucket -------------------------------------------------------------

\* Bucket::Bucket()
Bucket == [values |-> <<>>, values_capacity |-> N]

\* Bucket::size(), Bucket::capacity(), Bucket::full()
size(bk) == Len(bk.values)
capacity(bk) == bk.values_capacity
full(bk) == size(bk) = bk.values_capacity

\* expand() that doubles the capacity
expand_doubles(bk) == [bk EXCEPT !.values_capacity = bk.values_capacity * 2]

\* Bucket::expand()
expand(bk) == [bk EXCEPT !.values_capacity = size(bk) + N]

\* Bucket::index_of(): first slot holding key, values_capacity if there is none
index_of(bk, key) ==
    IF \E i \in 1 .. size(bk) : bk.values[i] = key
    THEN (CHOOSE i \in 1 .. size(bk) :
             /\ bk.values[i] = key
             /\ \A j \in 1 .. (i - 1) : bk.values[j] # key) - 1
    ELSE bk.values_capacity

\* Bucket::locate(): TRUE stands for a non-null pointer
locate(bk, key) == index_of(bk, key) # bk.values_capacity

\* Bucket::insert() that does not look for the key first
Bucket_insert_unchecked(bk, key) ==
    LET grown == IF size(bk) >= bk.values_capacity THEN expand(bk) ELSE bk
    IN  [bucket |-> [grown EXCEPT !.values = Append(@, key)],
         index |-> size(grown), added |-> TRUE]

\* Bucket::insert()
Bucket_insert(bk, key) ==
    LET index == index_of(bk, key)
        grown == IF size(bk) >= bk.values_capacity THEN expand(bk) ELSE bk
    IN  IF index # bk.values_capacity
        THEN [bucket |-> bk, index |-> index, added |-> FALSE]
        ELSE [bucket |-> [grown EXCEPT !.values = Append(@, key)],
              index |-> size(grown), added |-> TRUE]

\* Bucket::erase() that reports the key erased and leaves it in its slot
Bucket_erase_keeps_key(bk, key) ==
    [bucket |-> bk,
     erased |-> IF index_of(bk, key) = bk.values_capacity THEN 0 ELSE 1]

\* Bucket::erase(): the last slot is moved into the erased one
Bucket_erase(bk, key) ==
    LET index == index_of(bk, key)
        last == bk.values[size(bk)]
        moved == [bk.values EXCEPT ![index + 1] = last]
    IN  IF index = bk.values_capacity
        THEN [bucket |-> bk, erased |-> 0]
        ELSE [bucket |-> [bk EXCEPT !.values = SubSeq(moved, 1, size(bk) - 1)],
              erased |-> 1]

\* ---- ADS_set: addressing ------------------------------------------------

hash(key) == key

\* h() that takes the hash modulo the split round itself
h_mod_round(st, key) == hash(key) % st.split_round

\* ADS_set::h(), ADS_set::g()
h(st, key) == hash(key) % (2 ^ st.split_round)
g(st, key) == hash(key) % (2 ^ (st.split_round + 1))

\* bucket_at() that never switches to g() for the buckets already split
bucket_at_only_h(st, key) == h(st, key)

\* ADS_set::bucket_at(), as the index into table
bucket_at(st, key) ==
    IF h(st, key) < st.table_split_index THEN g(st, key) ELSE h(st, key)

\* ADS_set::ADS_set()
ADS_set ==
    [split_round |-> 1, table_split_index |-> 0, table_size |-> 2,
     table_items_size |-> 0, table |-> <<Bucket, Bucket>>]

\* ADS_set::reserve()
reserve(st, new_table_size) ==
    IF st.table_size >= new_table_size
    THEN st
    ELSE [st EXCEPT
            !.table = [i \in 1 .. new_table_size |->
                          IF i <= st.table_size THEN st.table[i] ELSE Bucket],
            !.table_size = new_table_size]

\* ---- Iterator -----------------------------------------------------------

\* skip_empty_buckets() that stays where it is
skip_no_buckets(st, it) == it

RECURSIVE skip_empty_buckets(_, _)
\* Iterator::skip_empty_buckets()
skip_empty_buckets(st, it) ==
    IF it.current # it.end /\ size(st.table[it.current + 1]) = 0
    THEN skip_empty_buckets(st, [it EXCEPT !.current = @ + 1])
    ELSE it

\* Iterator::Iterator(current, end, index).  cursize is what the read of
\* current->size() yields.
Iterator(st, current, end, index, cursize) ==
    IF index >= cursize
    THEN skip_empty_buckets(st, [current |-> current, end |-> end, index |-> 0])
    ELSE [current |-> current, end |-> end, index |-> index]

\* operator++ that leaves the bucket after each key
increment_leaves_bucket(st, it) ==
    IF it.current = it.end
    THEN it
    ELSE skip_empty_buckets(st, [it EXCEPT !.index = 0, !.current = @ + 1])

\* Iterator::operator++
increment(st, it) ==
    IF it.current = it.end
    THEN it
    ELSE IF it.index + 1 >= size(st.table[it.current + 1])
         THEN skip_empty_buckets(st, [it EXCEPT !.index = 0, !.current = @ + 1])
         ELSE [it EXCEPT !.index = @ + 1]

\* Iterator::operator*
deref(st, it) == st.table[it.current + 1].values[it.index + 1]

\* ADS_set::begin(), ADS_set::end()
begin(st) == Iterator(st, 0, st.table_size, 0, size(st.table[1]))
end(st, junk) == Iterator(st, st.table_size, st.table_size, 0, junk)

\* ---- ADS_set: modifiers -------------------------------------------------

RECURSIVE insert(_, _), split(_), reinsert(_, _, _)

\* what split() reads when it moves table[table_split_index] out of st: the
\* split pointer, the split round and the size of the table at that point
Drain(st) ==
    [at |-> st.table_split_index, round |-> st.split_round,
     table_size |-> st.table_size]

\* the loop at the end of ADS_set::split(): insert(bucket[i]) for i >= i0
reinsert(st, values, i) ==
    IF i > Len(values)
    THEN [st |-> st, splits |-> 0, moved |-> 0, drains |-> <<>>]
    ELSE LET r == insert(st, values[i])
             rest == reinsert(r.st, values, i + 1)
         IN  [st |-> rest.st, splits |-> r.splits + rest.splits,
              moved |-> r.moved + rest.moved,
              drains |-> r.drains \o rest.drains]

\* split() that starts the next round one bucket later still
split_advances_late(st) ==
    LET max_table_size == 2 ^ st.split_round
        st1 == IF st.table_size = max_table_size
               THEN reserve(st, st.table_size * 2) ELSE st
        bucket == st1.table[st1.table_split_index + 1]
        st2 == [st1 EXCEPT
                   !.table[st1.table_split_index + 1] = Bucket,
                   !.table_items_size = @ - size(bucket)]
        st3 == IF st2.table_split_index > max_table_size
               THEN [st2 EXCEPT !.table_split_index = 0, !.split_round = @ + 1]
               ELSE [st2 EXCEPT !.table_split_index = @ + 1]
        r == reinsert(st3, bucket.values, 1)
    IN  [st |-> r.st, splits |-> 1 + r.splits,
         moved |-> size(bucket) + r.moved,
         drains |-> <<Drain(st1)>> \o r.drains]

\* split() that does not take the moved keys off table_items_size
split_keeps_count(st) ==
    LET max_table_size == 2 ^ st.split_round
        st1 == IF st.table_size = max_table_size
               THEN reserve(st, st.table_size * 2) ELSE st
        bucket == st1.table[st1.table_split_index + 1]
        st2 == [st1 EXCEPT !.table[st1.table_split_index + 1] = Bucket]
        st3 == IF st2.table_split_index >= max_table_size
               THEN [st2 EXCEPT !.table_split_index = 0, !.split_round = @ + 1]
               ELSE [st2 EXCEPT !.table_split_index = @ + 1]
        r == reinsert(st3, bucket.values, 1)
    IN  [st |-> r.st, splits |-> 1 + r.splits,
         moved |-> size(bucket) + r.moved,
         drains |-> <<Drain(st1)>> \o r.drains]

\* ADS_set::split().  splits counts the calls of split() and moved the keys
\* they took out and inserted again, nested calls included; drains lists, in
\* the order of the calls, where each of them moved its bucket out.
split(st) ==
    LET max_table_size == 2 ^ st.split_round
        st1 == IF st.table_size = max_table_size
               THEN reserve(st, st.table_size * 2) ELSE st
        bucket == st1.table[st1.table_split_index + 1]
        st2 == [st1 EXCEPT
                  !.table[st1.table_split_index + 1] = Bucket,
                  !.table_items_size = @ - size(bucket)]
        st3 == IF st2.table_split_index >= max_table_size
               THEN [st2 EXCEPT !.table_split_index = 0, !.split_round = @ + 1]
               ELSE [st2 EXCEPT !.table_split_index = @ + 1]
        r == reinsert(st3, bucket.values, 1)
    IN  [st |-> r.st, splits |-> 1 + r.splits,
         moved |-> size(bucket) + r.moved,
         drains |-> <<Drain(st1)>> \o r.drains]

\* insert() that keeps the bucket it looked up before the split
insert_stale_bucket(st, key) ==
    LET bi == bucket_at(st, key)
        sp == IF full(st.table[bi + 1])
              THEN split(st)
              ELSE [st |-> st, splits |-> 0, moved |-> 0, drains |-> <<>>]
        st1 == sp.st
        r == Bucket_insert(st1.table[bi + 1], key)
        st2 == [st1 EXCEPT
                  !.table[bi + 1] = r.bucket,
                  !.table_items_size = IF r.added THEN @ + 1 ELSE @]
    IN  [st |-> st2,
         it |-> Iterator(st2, bi, st2.table_size, r.index, size(r.bucket)),
         added |-> r.added,
         splits |-> sp.splits,
         moved |-> sp.moved,
         drains |-> sp.drains]

\* ADS_set::insert(const key_type&)
insert(st, key) ==
    LET sp == IF full(st.table[bucket_at(st, key) + 1])
              THEN split(st)
              ELSE [st |-> st, splits |-> 0, moved |-> 0, drains |-> <<>>]
        st1 == sp.st
        bi == bucket_at(st1, key)
        r == Bucket_insert(st1.table[bi + 1], key)
        st2 == [st1 EXCEPT
                  !.table[bi + 1] = r.bucket,
                  !.table_items_size = IF r.added THEN @ + 1 ELSE @]
    IN  [st |-> st2,
         it |-> Iterator(st2, bi, st2.table_size, r.index, size(r.bucket)),
         added |-> r.added,
         splits |-> sp.splits,
         moved |-> sp.moved,
         drains |-> sp.drains]

\* erase() that leaves table_items_size alone
erase_keeps_count(st, key) ==
    LET bi == bucket_at(st, key)
        r == Bucket_erase(st.table[bi + 1], key)
    IN  [st |-> [st EXCEPT !.table[bi + 1] = r.bucket], erased |-> r.erased]

\* erase() that goes back to the directory of a new index when its last key
\* is erased
erase_shrinks_when_empty(st, key) ==
    LET bi == bucket_at(st, key)
        r == Bucket_erase(st.table[bi + 1], key)
        st1 == [st EXCEPT !.table[bi + 1] = r.bucket,
                          !.table_items_size = @ - r.erased]
    IN  [st |-> IF r.erased = 1 /\ st1.table_items_size = 0 THEN ADS_set ELSE st1,
         erased |-> r.erased]

\* ADS_set::erase()
erase(st, key) ==
    LET bi == bucket_at(st, key)
        r == Bucket_erase(st.table[bi + 1], key)
    IN  [st |-> [st EXCEPT !.table[bi + 1] = r.bucket,
                           !.table_items_size = @ - r.erased],
         erased |-> r.erased]

\* ADS_set::count()
count(st, key) ==
    IF locate(st.table[bucket_at(st, key) + 1], key) THEN 1 ELSE 0

\* find() that takes the not-found value of index_of() for a slot
find_accepts_capacity(st, key, junk) ==
    LET bi == bucket_at(st, key)
        bucket == st.table[bi + 1]
        index == index_of(bucket, key)
    IN  IF index <= capacity(bucket)
        THEN Iterator(st, bi, st.table_size, index, size(bucket))
        ELSE end(st, junk)

\* ADS_set::find()
find(st, key, junk) ==
    LET bi == bucket_at(st, key)
        bucket == st.table[bi + 1]
        index == index_of(bucket, key)
    IN  IF index < capacity(bucket)
        THEN Iterator(st, bi, st.table_size, index, size(bucket))
        ELSE end(st, junk)

\* swap() that forgets table_items_size
swap_forgets_count(this, other) ==
    [this |-> [split_round |-> other.split_round,
               table_split_index |-> other.table_split_index,
               table_size |-> other.table_size,
               table_items_size |-> this.table_items_size,
               table |-> other.table],
     other |-> [split_round |-> this.split_round,
                table_split_index |-> this.table_split_index,
                table_size |-> this.table_size,
                table_items_size |-> other.table_items_size,
                table |-> this.table]]

\* ADS_set::swap(): this and other exchange all five fields
swap(this, other) ==
    [this |-> [split_round |-> other.split_round,
               table_split_index |-> other.table_split_index,
               table_size |-> other.table_size,
               table_items_size |-> other.table_items_size,
               table |-> other.table],
     other |-> [split_round |-> this.split_round,
                table_split_index |-> this.table_split_index,
                table_size |-> this.table_size,
                table_items_size |-> this.table_items_size,
                table |-> this.table]]

\* clear() that empties the buckets and keeps the directory
clear_keeps_table(st) ==
    [st EXCEPT !.table_items_size = 0,
               !.table = [i \in 1 .. st.table_size |-> Bucket]]

\* ADS_set::clear(): swap with a temporary empty set, which is then destroyed
clear(st) == swap(st, ADS_set).this

\* ADS_set::ADS_set(ADS_set&&): construct empty, then swap with other
move_construct(other) == swap(ADS_set, other)

RECURSIVE range_for(_, _, _)
\* for (const auto& item: st): the keys met from it until it equals last
range_for(st, it, last) ==
    IF it = last
    THEN <<>>
    ELSE <<deref(st, it)>> \o range_for(st, increment(st, it), last)

\* operator== without the comparison of the sizes
equals_ignores_size(lhs, rhs, junk) ==
    LET items == range_for(lhs, begin(lhs), end(lhs, junk))
    IN  \A i \in 1 .. Len(items) : count(rhs, items[i]) # 0

\* operator==(const ADS_set&, const ADS_set&)
equals(lhs, rhs, junk) ==
    IF lhs.table_items_size # rhs.table_items_size
    THEN FALSE
    ELSE LET items == range_for(lhs, begin(lhs), end(lhs, junk))
         IN  \A i \in 1 .. Len(items) : count(rhs, items[i]) # 0

\* ---- ADS_set: the buckets an iterator reads -------------------------------

RECURSIVE skip_empty_buckets_reads(_, _)
\* the indices i for which skip_empty_buckets() evaluates table[i].size()
skip_empty_buckets_reads(st, it) ==
    IF it.current = it.end
    THEN {}
    ELSE {it.current} \cup
             (IF size(st.table[it.current + 1]) = 0
              THEN skip_empty_buckets_reads(st, [it EXCEPT !.current = @ + 1])
              ELSE {})

\* the indices i for which Iterator(current, last, index) evaluates
\* table[i].size(): current, whatever it is, and then those of
\* skip_empty_buckets()
Iterator_reads(st, current, last, index, cursize) ==
    {current} \cup
        (IF index >= cursize
         THEN skip_empty_buckets_reads(
                  st, [current |-> current, end |-> last, index |-> 0])
         ELSE {})

\* the indices i for which operator++ evaluates table[i].size()
increment_reads(st, it) ==
    IF it.current = it.end
    THEN {}
    ELSE {it.current} \cup
             (IF it.index + 1 >= size(st.table[it.current + 1])
              THEN skip_empty_buckets_reads(
                       st, [it EXCEPT !.index = 0, !.current = @ + 1])
              ELSE {})

\* the same for begin(), end() and find()
begin_reads(st) == Iterator_reads(st, 0, st.table_size, 0, size(st.table[1]))
end_reads(st, junk) ==
    Iterator_reads(st, st.table_size, st.table_size, 0, junk)
find_reads(st, key, junk) ==
    LET bi == bucket_at(st, key)
        bucket == st.table[bi + 1]
        index == index_of(bucket, key)
    IN  IF index < capacity(bucket)
        THEN Iterator_reads(st, bi, st.table_size, index, size(bucket))
        ELSE end_reads(st, junk)

\* ---- the state machine --------------------------------------------------

\* all keys held in the buckets of st
Stored(st) ==
    UNION {{st.table[i].values[j] : j \in 1 .. size(st.table[i])} :
              i \in 1 .. st.table_size}

NoIt == [current |-> 0, end |-> 0, index |-> 0]
\* it, added, num: what the operation returned.  The other fields describe the
\* call: size() and split_round when it was made, whether its key was stored
\* then, whether the bucket of its key was full then, the calls of split() it
\* made, the keys they inserted again and where they moved a bucket out.
NoRet == [it |-> NoIt, added |-> FALSE, num |-> 0,
          before |-> 0, round |-> 1, was |-> FALSE, full |-> FALSE,
          splits |-> 0, moved |-> 0, drains |-> <<>>]

\* the fields of ret that describe the state st in which key is passed
Call(st, key) ==
    [NoRet EXCEPT !.before = st.table_items_size, !.round = st.split_round,
                  !.was = key \in Stored(st),
                  !.full = full(st.table[bucket_at(st, key) + 1])]

Init ==
    /\ N \in 1 .. BucketN
    /\ a = ADS_set
    /\ b = ADS_set
    /\ ref = {}
    /\ refb = {}
    /\ op = "new"
    /\ arg = 0
    /\ ret = NoRet
    /\ stack = <<>>

\* a.insert(key)
Insert ==
    \E key \in Keys :
        LET r == insert(a, key)
        IN  /\ r.st.split_round <= MaxRound
            /\ a' = r.st
            /\ ref' = ref \cup {key}
            /\ op' = "insert"
            /\ arg' = key
            /\ ret' = [Call(a, key) EXCEPT !.it = r.it, !.added = r.added,
                                           !.splits = r.splits,
                                           !.moved = r.moved,
                                           !.drains = r.drains]
            /\ UNCHANGED <<b, N, refb, stack>>

\* a.erase(key)
Erase ==
    \E key \in Keys :
        LET r == erase(a, key)
        IN  /\ a' = r.st
            /\ ref' = ref \ {key}
            /\ op' = "erase"
            /\ arg' = key
            /\ ret' = [Call(a, key) EXCEPT !.num = r.erased]
            /\ UNCHANGED <<b, N, refb, stack>>

\* a.clear()
Clear ==
    /\ a' = clear(a)
    /\ ref' = {}
    /\ op' = "clear"
    /\ arg' = 0
    /\ ret' = [NoRet EXCEPT !.before = a.table_items_size,
                            !.round = a.split_round]
    /\ UNCHANGED <<b, N, refb, stack>>

Next == Insert \/ Erase \/ Clear

Spec == Init /\ [][Next]_vars

\* ---- properties ---------------------------------------------------------

\* ADS_set::size()
ADS_set_size(st) == st.table_items_size

\* the state of a freshly constructed index whose buckets have capacity n
Fresh(n) ==
    [split_round |-> 1, table_split_index |-> 0, table_size |-> 2,
     table_items_size |-> 0,
     table |-> <<[values |-> <<>>, values_capacity |-> n],
                 [values |-> <<>>, values_capacity |-> n]>>]

\* the end sentinel (end, end, 0) of st
EndSentinel(st) ==
    [current |-> st.table_size, end |-> st.table_size, index |-> 0]

\* it points at a live slot of st
AtSlot(st, it) ==
    /\ it.current \in 0 .. (st.table_size - 1)
    /\ it.end = st.table_size
    /\ it.index \in 0 .. (size(st.table[it.current + 1]) - 1)

\* C1: after any sequence of insert and erase calls on a fresh index, count(k)
\* is 1 exactly for the keys of the reference set (insert adds, erase removes)
\* and size() is the cardinality of the reference set.
C1_SetSemantics ==
    /\ \A k \in Keys : count(a, k) = (IF k \in ref THEN 1 ELSE 0)
    /\ ADS_set_size(a) = Cardinality(ref)

\* C1 witness: a key has been erased from an index that went through a round
\* of splits and still holds other keys
C1_Witness ==
    /\ op = "erase"
    /\ ret.num = 1
    /\ a.split_round >= 2
    /\ Cardinality(ref) >= 2

\* C2: insert(k) returns inserted? = TRUE iff k was not stored before the call;
\* then size() is size() before plus one, also when the call split buckets and
\* inserted the drained keys again; when it returns FALSE size() is unchanged.
C2_InsertResult ==
    op = "insert" =>
        /\ ret.added <=> ~ret.was
        /\ ret.added => ADS_set_size(a) = ret.before + 1
        /\ ~ret.added => ADS_set_size(a) = ret.before

\* C2 witness: a new key was inserted by a call that split and moved keys
C2_Witness ==
    /\ op = "insert"
    /\ ret.added
    /\ ret.splits >= 1
    /\ ret.moved >= 2

\* C3: erase(k) returns 1 and decrements size() by one iff k was stored, never
\* more than 1; erase of an absent key returns 0 and leaves d, s, M, n and
\* every bucket unchanged.
C3_EraseResult ==
    [][op' = "erase" =>
          IF arg' \in Stored(a)
          THEN /\ ret'.num = 1
               /\ ADS_set_size(a') = ADS_set_size(a) - 1
          ELSE /\ ret'.num = 0
               /\ a' = a]_vars

\* C3 witness: a stored key was erased while other keys stay behind
C3_Witness ==
    /\ op = "erase"
    /\ ret.num = 1
    /\ ret.was
    /\ ret.before >= 3
    /\ ADS_set_size(a) = ret.before - 1

\* C4: insert(k) of a key that is already stored returns inserted? = FALSE and
\* leaves d, s, M, n and the contents of every bucket unchanged, also when the
\* bucket holding k is full.
C4_DuplicateInsertIgnored ==
    [][(op' = "insert" /\ arg' \in Stored(a)) =>
          (~ret'.added /\ a' = a)]_vars

\* C5: stepping an iterator from begin() with ++ until it equals end() visits
\* every stored key exactly once and nothing else, in size() steps; the keys
\* visited are the distinct keys the index was built from.
C5_IteratorComplete ==
    \A junk \in Junk :
        LET items == range_for(a, begin(a), end(a, junk))
            seen == {items[i] : i \in 1 .. Len(items)}
        IN  /\ Len(items) = ADS_set_size(a)
            /\ Cardinality(seen) = Len(items)
            /\ seen = Stored(a)
            /\ seen = ref

\* C5 witness: keys lie on both sides of an empty bucket, a bucket holds more
\* than one key and the last bucket is empty
C5_Witness ==
    /\ \E i, j, k \in 1 .. a.table_size :
           /\ i < j /\ j < k
           /\ size(a.table[i]) > 1
           /\ size(a.table[j]) = 0
           /\ size(a.table[k]) > 0
    /\ size(a.table[a.table_size]) = 0
    /\ ADS_set_size(a) >= 3

\* C6: find(k) is positioned at the (bucket, slot) holding k when k is stored
\* and is the end iterator otherwise; the iterator insert(k) returns is
\* positioned at the slot holding k for a new and for a duplicate key, also
\* after a split or a regrowth of the bucket.
C6_FindPosition ==
    /\ \A k \in Keys, junk \in Junk :
           LET it == find(a, k, junk)
           IN  IF k \in Stored(a)
               THEN AtSlot(a, it) /\ deref(a, it) = k
               ELSE it = EndSentinel(a)
    /\ op = "insert" => (AtSlot(a, ret.it) /\ deref(a, ret.it) = arg)

\* C6 witness: an insert split the table and then had to regrow its bucket
C6_Witness ==
    /\ op = "insert"
    /\ ret.added
    /\ ret.splits >= 1
    /\ capacity(a.table[ret.it.current + 1]) > N
    /\ ret.it.index = capacity(a.table[ret.it.current + 1]) - N
    /\ \E k \in Keys : k \notin Stored(a)

\* C8: clear() leaves the freshly constructed state d = 1, s = 0, M = 2, n = 0
\* with two empty buckets; then begin() == end(), and after one insert
\* begin() != end() and ++begin() == end().
C8_ClearFresh ==
    op = "clear" =>
        /\ a = Fresh(N)
        /\ \A junk \in Junk :
               /\ begin(a) = end(a, junk)
               /\ \A k \in Keys :
                      LET one == insert(a, k).st
                      IN  /\ begin(one) # end(one, junk)
                          /\ increment(one, begin(one)) = end(one, junk)

\* C8 witness: clear() was called on an index that held keys and had split
C8_Witness ==
    /\ op = "clear"
    /\ ret.before >= 3
    /\ ret.round >= 2

\* C10: every stored key k lies in exactly the bucket address(k), where
\* i = H(k) mod 2^d and address(k) = H(k) mod 2^(d+1) if i < s, else i.
C10_AddressInvariant ==
    \A i \in 1 .. a.table_size :
        \A j \in 1 .. size(a.table[i]) :
            LET k == a.table[i].values[j]
                lo == hash(k) % (2 ^ a.split_round)
                address == IF lo < a.table_split_index
                           THEN hash(k) % (2 ^ (a.split_round + 1))
                           ELSE lo
            IN  i - 1 = address

\* C10 witness: the keys a split inserted again made a further split
C10_Witness ==
    /\ op = "insert"
    /\ ret.splits >= 2
    /\ ret.moved >= 2
    /\ ADS_set_size(a) >= 3

\* C11: a user insert splits exactly once when the bucket of its key was full
\* and not at all otherwise; the re-insertion of the drained keys starts no
\* further split.
C11_OneSplitPerInsert ==
    op = "insert" => ret.splits = (IF ret.full THEN 1 ELSE 0)

\* C12: the split that drains the last unsplit bucket 2^d - 1 of round d
\* advances the round itself, so d is incremented and s = 0 on its return; a
\* state with s = 2^d is never seen between public operations.
C12_RoundAdvanceImmediate ==
    /\ a.table_split_index < 2 ^ a.split_round
    /\ (op = "insert" /\ ret.splits = 1
            /\ ret.drains[1].at = 2 ^ ret.drains[1].round - 1) =>
           (a.table_split_index = 0 /\ a.split_round = ret.drains[1].round + 1)

\* C13: M is 2^d or 2^(d+1), 0 <= s <= 2^d, and s = 0 whenever M = 2^d; the
\* split pointer indexes an existing bucket (s < M) whenever a split moves
\* table[s] out.
C13_DirectorySize ==
    /\ a.table_size \in {2 ^ a.split_round, 2 ^ (a.split_round + 1)}
    /\ a.table_split_index \in 0 .. (2 ^ a.split_round)
    /\ a.table_size = 2 ^ a.split_round => a.table_split_index = 0
    /\ Len(a.table) = a.table_size
    /\ op = "insert" =>
           \A i \in 1 .. Len(ret.drains) :
               ret.drains[i].at < ret.drains[i].table_size

\* C13 witness: an insert split with the split pointer at 2^d, in a table of
\* 2^(d+1) buckets
C13_Witness ==
    /\ op = "insert"
    /\ \E i \in 1 .. Len(ret.drains) :
           /\ ret.drains[i].at = 2 ^ ret.drains[i].round
           /\ ret.drains[i].table_size = 2 ^ (ret.drains[i].round + 1)
    /\ a.table_size = 2 ^ a.split_round
    /\ ADS_set_size(a) >= 2

\* sum of the sizes of the buckets table[1 .. m]
RECURSIVE SumSizes(_, _)
SumSizes(table, m) ==
    IF m = 0 THEN 0 ELSE size(table[m]) + SumSizes(table, m - 1)

\* C14: between public operations table_items_size is the sum of the sizes
\* of all buckets, after inserts with or without splits, erases and clears.
C14_CountIsSum == ADS_set_size(a) = SumSizes(a.table, a.table_size)

\* C14 witness: an insert that split twice left keys in several buckets
C14_Witness ==
    /\ op = "insert"
    /\ ret.splits >= 2
    /\ ret.moved >= 2
    /\ \E i, j \in 1 .. a.table_size :
           i # j /\ size(a.table[i]) >= 2 /\ size(a.table[j]) >= 1

\* C15: no key is stored in more than one bucket and no bucket holds the same
\* key in two slots.
C15_Unique ==
    \A i, j \in 1 .. a.table_size :
        \A x \in 1 .. size(a.table[i]), y \in 1 .. size(a.table[j]) :
            a.table[i].values[x] = a.table[j].values[y] => (i = j /\ x = y)

\* C15 witness: a stored key was inserted again by a call that split
C15_Witness ==
    /\ op = "insert"
    /\ ret.was
    /\ ~ret.added
    /\ ret.splits >= 1
    /\ ret.moved >= 2
    /\ ADS_set_size(a) >= 3

\* C18: erase(k) leaves d, s and M unchanged and leaves every bucket other
\* than the bucket of k unchanged, so the directory never shrinks by erasing.
C18_EraseFrame ==
    [][op' = "erase" =>
          /\ a'.split_round = a.split_round
          /\ a'.table_split_index = a.table_split_index
          /\ a'.table_size = a.table_size
          /\ Len(a'.table) = Len(a.table)
          /\ \A i \in 1 .. a.table_size :
                 i # bucket_at(a, arg') + 1 => a'.table[i] = a.table[i]]_vars

\* C18 witness: the last key was erased from a directory that had grown and
\* whose split pointer stands inside the round
C18_Witness ==
    /\ op = "erase"
    /\ ret.num = 1
    /\ ADS_set_size(a) = 0
    /\ a.table_size = 2 ^ (a.split_round + 1)
    /\ a.table_split_index > 0
    /\ a.split_round >= 2

\* C19: every bucket has size <= capacity and a capacity that is a positive
\* multiple of N; Bucket::insert of a new key into a bucket with size =
\* capacity grows the capacity by exactly N and keeps the previous keys.
C19_BucketCapacity ==
    \A i \in 1 .. a.table_size :
        LET bk == a.table[i]
        IN  /\ size(bk) <= capacity(bk)
            /\ capacity(bk) > 0
            /\ capacity(bk) % N = 0
            /\ full(bk) =>
                   \A k \in Keys :
                       LET r == Bucket_insert(bk, k)
                       IN  IF \E x \in 1 .. size(bk) : bk.values[x] = k
                           THEN r.bucket = bk /\ ~r.added
                           ELSE /\ r.added
                                /\ capacity(r.bucket) = capacity(bk) + N
                                /\ size(r.bucket) = size(bk) + 1
                                /\ SubSeq(r.bucket.values, 1, size(bk))
                                       = bk.values
                                /\ r.bucket.values[size(bk) + 1] = k

\* C19 witness: a bucket that has grown is full again, next to a bucket with
\* room, and a key is left to insert
C19_Witness ==
    \E i, j \in 1 .. a.table_size :
        /\ capacity(a.table[i]) >= 2 * N
        /\ size(a.table[j]) \in 1 .. (capacity(a.table[j]) - 1)
        /\ full(a.table[i])
        /\ \E k \in Keys : k \notin Stored(a)

\* the first bucket after table[c] that holds a key, table_size if none does
NextNonEmpty(st, c) ==
    IF \E j \in (c + 1) .. (st.table_size - 1) : size(st.table[j + 1]) > 0
    THEN CHOOSE j \in (c + 1) .. (st.table_size - 1) :
             /\ size(st.table[j + 1]) > 0
             /\ \A x \in (c + 1) .. (j - 1) : size(st.table[x + 1]) = 0
    ELSE st.table_size

\* C20: ++ on the end iterator is a no-op; on any other iterator it moves to
\* the next slot of the same bucket if there is one, else to slot 0 of the
\* next non-empty bucket, else to the end sentinel; a non-end iterator from
\* begin(), find or ++ has slot < size of its bucket.
C20_IteratorStep ==
    /\ increment(a, EndSentinel(a)) = EndSentinel(a)
    /\ \A c \in 0 .. (a.table_size - 1) :
           \A i \in 0 .. (size(a.table[c + 1]) - 1) :
               LET it == [current |-> c, end |-> a.table_size, index |-> i]
                   nx == increment(a, it)
               IN  /\ nx = IF i + 1 < size(a.table[c + 1])
                           THEN [it EXCEPT !.index = i + 1]
                           ELSE [it EXCEPT !.index = 0,
                                           !.current = NextNonEmpty(a, c)]
                   /\ nx = EndSentinel(a) \/ AtSlot(a, nx)
    /\ begin(a) = EndSentinel(a) \/ AtSlot(a, begin(a))
    /\ \A k \in Keys, junk \in Junk :
           find(a, k, junk) = EndSentinel(a) \/ AtSlot(a, find(a, k, junk))

\* C20 witness: ++ has to step inside a bucket, to cross empty buckets and
\* to reach the end past an empty last bucket
C20_Witness ==
    /\ \E i, j, k \in 1 .. a.table_size :
           /\ i < j /\ j < k
           /\ size(a.table[i]) > 1
           /\ size(a.table[j]) = 0
           /\ size(a.table[j + 1]) = 0
           /\ size(a.table[k]) > 0
    /\ size(a.table[a.table_size]) = 0
    /\ size(a.table[1]) = 0

\* the buckets of st
InTable(st) == 0 .. (st.table_size - 1)

\* C21: constructing or advancing an iterator reads the size of buckets with
\* index in [0, M) only; end(), and find(k) for an absent key, never read the
\* size of table[M], one past the end of the directory.
C21_IteratorReadsInTable ==
    /\ begin_reads(a) \subseteq InTable(a)
    /\ \A c \in InTable(a) :
           \A i \in 0 .. (size(a.table[c + 1]) - 1) :
               increment_reads(
                   a, [current |-> c, end |-> a.table_size, index |-> i])
                   \subseteq InTable(a)
    /\ increment_reads(a, EndSentinel(a)) \subseteq InTable(a)
    /\ \A junk \in Junk :
           /\ end_reads(a, junk) \subseteq InTable(a)
           /\ \A k \in Keys : find_reads(a, k, junk) \subseteq InTable(a)

\* ---- two indices --------------------------------------------------------

PairKeys == 0 .. MaxPairKey

\* the operations of the runs with two indices record only their name and
\* size() before the call

\* a.insert(key)
PairInsertA ==
    \E key \in PairKeys :
        LET r == insert(a, key)
        IN  /\ r.st.split_round <= MaxPairRound
            /\ a' = r.st
            /\ ref' = ref \cup {key}
            /\ op' = "a.insert"
            /\ arg' = 0
            /\ ret' = [NoRet EXCEPT !.before = a.table_items_size]
            /\ UNCHANGED <<b, N, refb, stack>>

\* a.erase(key)
PairEraseA ==
    \E key \in PairKeys :
        /\ a' = erase(a, key).st
        /\ ref' = ref \ {key}
        /\ op' = "a.erase"
        /\ arg' = 0
        /\ ret' = [NoRet EXCEPT !.before = a.table_items_size]
        /\ UNCHANGED <<b, N, refb, stack>>

\* b.insert(key)
PairInsertB ==
    \E key \in PairKeys :
        LET r == insert(b, key)
        IN  /\ r.st.split_round <= MaxPairRound
            /\ b' = r.st
            /\ refb' = refb \cup {key}
            /\ op' = "b.insert"
            /\ arg' = 0
            /\ ret' = [NoRet EXCEPT !.before = b.table_items_size]
            /\ UNCHANGED <<a, N, ref, stack>>

\* b.erase(key)
PairEraseB ==
    \E key \in PairKeys :
        /\ b' = erase(b, key).st
        /\ refb' = refb \ {key}
        /\ op' = "b.erase"
        /\ arg' = 0
        /\ ret' = [NoRet EXCEPT !.before = b.table_items_size]
        /\ UNCHANGED <<a, N, ref, stack>>

\* a.swap(b)
Swap ==
    LET r == swap(a, b)
    IN  /\ a' = r.this
        /\ b' = r.other
        /\ ref' = refb
        /\ refb' = ref
        /\ op' = "swap"
        /\ arg' = 0
        /\ ret' = [NoRet EXCEPT !.before = a.table_items_size]
        /\ UNCHANGED <<N, stack>>

\* b is destroyed and constructed anew as ADS_set b {std::move(a)}
Move ==
    LET r == move_construct(a)
    IN  /\ b' = r.this
        /\ a' = r.other
        /\ refb' = ref
        /\ ref' = {}
        /\ op' = "move"
        /\ arg' = 0
        /\ ret' = [NoRet EXCEPT !.before = a.table_items_size]
        /\ UNCHANGED <<N, stack>>

PairNext ==
    \/ PairInsertA \/ PairEraseA \/ PairInsertB \/ PairEraseB
    \/ Swap \/ Move

PairSpec == Init /\ [][PairNext]_vars

\* C7: a == b iff a and b store the same set of keys, whatever their
\* (d, s, M) and the histories that built them.
C7_EqualityIsSetEquality ==
    \A junk \in Junk :
        /\ equals(a, b, junk) <=> (Stored(a) = Stored(b))
        /\ equals(b, a, junk) <=> (Stored(a) = Stored(b))

\* C7 witness: the same keys in two indices with different directories
C7_Witness ==
    /\ Stored(a) = Stored(b)
    /\ Cardinality(Stored(a)) >= 2
    /\ a.table_size # b.table_size
    /\ a.table # b.table

\* C9: swap(a, b) exchanges the complete states (d, s, M, n, directory); move
\* construction from X yields X's former state and leaves X in the initial
\* state d = 1, s = 0, M = 2, n = 0, on which inserts work.
C9_SwapAndMove ==
    [][/\ op' = "swap" => (a' = b /\ b' = a)
       /\ op' = "move" =>
              /\ b' = a
              /\ a' = Fresh(N)
              /\ \A k \in PairKeys :
                     LET r == insert(a', k)
                     IN  /\ r.added
                         /\ Stored(r.st) = {k}
                         /\ ADS_set_size(r.st) = 1]_vars

\* C9 witness: two different non-empty indices were swapped
C9_Witness ==
    /\ op = "swap"
    /\ ADS_set_size(a) # ADS_set_size(b)
    /\ ADS_set_size(a) >= 1
    /\ ADS_set_size(b) >= 1
    /\ a.table_size # b.table_size

\* ---- inserts in ascending order -------------------------------------------

ScenarioKeys == 0 .. MaxScenarioKey

\* a new index, ADS_set<int> with the default of N among the instantiations
ScenarioInit ==
    /\ N \in (1 .. BucketN) \cup {DefaultN}
    /\ a = ADS_set
    /\ b = ADS_set
    /\ ref = {}
    /\ refb = {}
    /\ op = "new"
    /\ arg = 0
    /\ ret = NoRet
    /\ stack = <<>>

\* a.insert(key) of a key larger than every key inserted so far, so that ref
\* tells the order of the calls
ScenarioInsert ==
    \E key \in ScenarioKeys :
        LET r == insert(a, key)
        IN  /\ \A k \in ref : k < key
            /\ a' = r.st
            /\ ref' = ref \cup {key}
            /\ op' = "insert"
            /\ arg' = key
            /\ ret' = [Call(a, key) EXCEPT !.it = r.it, !.added = r.added,
                                           !.splits = r.splits,
                                           !.moved = r.moved,
                                           !.drains = r.drains]
            /\ UNCHANGED <<b, N, refb, stack>>

ScenarioSpec == ScenarioInit /\ [][ScenarioInsert]_vars

\* the keys in the slots of a bucket
BucketKeys(bk) == {bk.values[x] : x \in 1 .. size(bk)}

\* the keys of bucket i of st, none if the directory has no such bucket
KeysAt(st, i) == IF i < st.table_size THEN BucketKeys(st.table[i + 1]) ELSE {}

\* C16: a split moves out the bucket at the split pointer s as it is when the
\* split starts, whichever bucket was full; every key it moved out is then in
\* bucket s or in bucket s + 2^d (d as when the split starts), and the keys of
\* all other buckets are the same as before.  With N = 5, inserting 0, 2, 4, 6,
\* 8, 10 ends with bucket 0 = {0, 4, 8} and bucket 2 = {2, 6, 10}.
C16_SplitFrame ==
    [][(op' = "insert" /\ ret'.splits >= 1) =>
          LET s_old == a.table_split_index
              sibling == s_old + 2 ^ a.split_round
          IN  /\ ret'.drains[1].at = s_old
              /\ ret'.moved >= Cardinality(KeysAt(a, s_old))
              /\ KeysAt(a, s_old) \subseteq
                     (KeysAt(a', s_old) \cup KeysAt(a', sibling))
              /\ \A i \in 0 .. (a'.table_size - 1) :
                     i \notin {s_old, sibling} =>
                         KeysAt(a', i) \ {arg'} = KeysAt(a, i) \ {arg'}
              /\ (N = DefaultN /\ ref' = {0, 2, 4, 6, 8, 10}) =>
                     /\ KeysAt(a', 0) = {0, 4, 8}
                     /\ KeysAt(a', 2) = {2, 6, 10}]_vars

\* C17: with N = 5, inserting 1, 2, 3, 4, 5 into a new index triggers no
\* split, the insert of 6 that follows triggers one, and then
\* (d, s, M) = (2, 1, 4).
C17_ScenarioS1 ==
    /\ \A n \in 1 .. 5 :
           (N = DefaultN /\ op = "insert" /\ ref = 1 .. n) => ret.splits = 0
    /\ (N = DefaultN /\ op = "insert" /\ ref = 1 .. 6) =>
           /\ ret.splits >= 1
           /\ a.split_round = 2
           /\ a.table_split_index = 1
           /\ a.table_size = 4

\* C17 amended: with N = 5, inserting 1, 2, ..., 10 into a new index triggers
\* no split: after key 6, (d, s, M) = (1, 0, 2) with bucket 0 = {2, 4, 6} and
\* bucket 1 = {1, 3, 5}.  The insert of 11 is the first to find its bucket
\* full; it splits once, and then (d, s, M) = (1, 1, 4).
C17_ScenarioS1_NoSplit ==
    /\ \A n \in 1 .. 10 :
           (N = DefaultN /\ op = "insert" /\ ref = 1 .. n) => ret.splits = 0
    /\ (N = DefaultN /\ op = "insert" /\ ref = 1 .. 6) =>
           /\ a.split_round = 1
           /\ a.table_split_index = 0
           /\ a.table_size = 2
           /\ KeysAt(a, 0) = {2, 4, 6}
           /\ KeysAt(a, 1) = {1, 3, 5}
    /\ (N = DefaultN /\ op = "insert" /\ ref = 1 .. 11) =>
           /\ ret.full
           /\ ret.splits = 1
           /\ a.split_round = 1
           /\ a.table_split_index = 1
           /\ a.table_size = 4

\* C17 witness: the keys 1 to 6 have been inserted in this order
C17_Witness ==
    /\ N = DefaultN
    /\ op = "insert"
    /\ arg = 6
    /\ ref = 1 .. 6
    /\ ADS_set_size(a) = 6

\* ---- insert() and split() call by call ------------------------------------
\* The calls of the other runs are taken as a whole.  Here a is changed by one
\* call or return of insert() and split() at a time; b is the index that the
\* same public calls, taken as a whole, give.

\* a call of insert(key) that has not yet tested bucket->full() (pc = "full")
\* or is about to call Bucket::insert (pc = "store")
InsertFrame(key, pc) ==
    [fn |-> "insert", key |-> key, pc |-> pc, values |-> <<>>, i |-> 0]

\* a call of split() in its loop, about to insert values[i]
SplitFrame(values, i) ==
    [fn |-> "split", key |-> 0, pc |-> "loop", values |-> values, i |-> i]

Top == stack[Len(stack)]
Pop == SubSeq(stack, 1, Len(stack) - 1)

\* ADS_set::split() up to its loop: st is the index in which the loop starts,
\* values the bucket that was moved out
split_moves_out(st) ==
    LET max_table_size == 2 ^ st.split_round
        st1 == IF st.table_size = max_table_size
               THEN reserve(st, st.table_size * 2) ELSE st
        bucket == st1.table[st1.table_split_index + 1]
        st2 == [st1 EXCEPT
                   !.table[st1.table_split_index + 1] = Bucket,
                   !.table_items_size = @ - size(bucket)]
        st3 == IF st2.table_split_index >= max_table_size
               THEN [st2 EXCEPT !.table_split_index = 0, !.split_round = @ + 1]
               ELSE [st2 EXCEPT !.table_split_index = @ + 1]
    IN  [st |-> st3, values |-> bucket.values]

StepInit ==
    /\ N \in 1 .. BucketN
    /\ a = ADS_set
    /\ b = ADS_set
    /\ ref = {}
    /\ refb = {}
    /\ op = "new"
    /\ arg = 0
    /\ ret = NoRet
    /\ stack = <<>>

\* the user calls a.insert(key)
StepCall ==
    \E key \in Keys :
        LET r == insert(b, key)
        IN  /\ stack = <<>>
            /\ r.st.split_round <= MaxRound
            /\ stack' = <<InsertFrame(key, "full")>>
            /\ b' = r.st
            /\ ref' = ref \cup {key}
            /\ op' = "call"
            /\ arg' = key
            /\ ret' = Call(a, key)
            /\ UNCHANGED <<a, N, refb>>

\* insert(): if (bucket->full()) split(); the call of split() runs up to its
\* loop
StepFull ==
    /\ stack # <<>>
    /\ Top.fn = "insert"
    /\ Top.pc = "full"
    /\ IF full(a.table[bucket_at(a, Top.key) + 1])
       THEN LET r == split_moves_out(a)
            IN  /\ a' = r.st
                /\ stack' = Pop \o <<InsertFrame(Top.key, "store"),
                                      SplitFrame(r.values, 1)>>
                /\ ret' = [ret EXCEPT !.splits = @ + 1,
                                      !.moved = @ + Len(r.values)]
       ELSE /\ a' = a
            /\ stack' = Pop \o <<InsertFrame(Top.key, "store")>>
            /\ ret' = ret
    /\ UNCHANGED <<b, N, ref, refb, op, arg>>

\* a loop of split() that does not end after the last key
StepLoop_never_returns ==
    /\ stack # <<>>
    /\ Top.fn = "split"
    /\ Top.i <= Len(Top.values)
    /\ stack' = Pop \o <<SplitFrame(Top.values, Top.i + 1),
                          InsertFrame(Top.values[Top.i], "full")>>
    /\ UNCHANGED <<a, b, N, ref, refb, op, arg, ret>>

\* split(): one turn of the loop calls insert(values[i]); after the last one
\* split() returns
StepLoop ==
    /\ stack # <<>>
    /\ Top.fn = "split"
    /\ stack' = IF Top.i > Len(Top.values)
                THEN Pop
                ELSE Pop \o <<SplitFrame(Top.values, Top.i + 1),
                              InsertFrame(Top.values[Top.i], "full")>>
    /\ UNCHANGED <<a, b, N, ref, refb, op, arg, ret>>

\* insert(): Bucket::insert into the bucket of the key, and return
StepStore ==
    /\ stack # <<>>
    /\ Top.fn = "insert"
    /\ Top.pc = "store"
    /\ LET bi == bucket_at(a, Top.key)
           r == Bucket_insert(a.table[bi + 1], Top.key)
       IN  /\ a' = [a EXCEPT !.table[bi + 1] = r.bucket,
                              !.table_items_size =
                                  IF r.added THEN @ + 1 ELSE @]
           /\ ret' = IF Len(stack) = 1
                     THEN [ret EXCEPT !.added = r.added] ELSE ret
    /\ stack' = Pop
    /\ op' = IF Len(stack) = 1 THEN "insert" ELSE op
    /\ UNCHANGED <<b, N, ref, refb, arg>>

\* a.erase(key), between two calls of insert
StepErase ==
    \E key \in Keys :
        /\ stack = <<>>
        /\ a' = erase(a, key).st
        /\ b' = erase(b, key).st
        /\ ref' = ref \ {key}
        /\ op' = "erase"
        /\ arg' = key
        /\ ret' = [Call(a, key) EXCEPT !.num = erase(a, key).erased]
        /\ UNCHANGED <<N, refb, stack>>

\* the steps of a call in progress
StepRun == StepFull \/ StepLoop \/ StepStore
StepNext == StepCall \/ StepFull \/ StepLoop \/ StepStore \/ StepErase
\* a call that has started keeps running
StepSpec == StepInit /\ [][StepNext]_vars /\ WF_vars(StepRun)

\* the calls of split() in progress
SplitDepth == Cardinality({x \in 1 .. Len(stack) : stack[x].fn = "split"})

\* the keys that calls in progress still have to store
Pending ==
    UNION {IF stack[x].fn = "insert"
           THEN {stack[x].key}
           ELSE {stack[x].values[y] : y \in stack[x].i .. Len(stack[x].values)} :
              x \in 1 .. Len(stack)}

\* no more calls of split() are in progress than keys were stored when the
\* user called insert; every key is in the table or with a call in progress;
\* when the user's call has returned all keys are in the table, which is then
\* what insert() taken as a whole gives
StepSafe ==
    /\ SplitDepth <= ret.before
    /\ Stored(a) \cup Pending = ref
    /\ stack = <<>> => (Stored(a) = ref /\ a = b)

\* C22: every user insert terminates: the calls insert -> split -> insert
\* nest to a finite depth, the call returns, and then every key that a split
\* moved out is in the table again.
C22_InsertTerminates ==
    /\ []StepSafe
    /\ (stack # <<>>) ~> (stack = <<>>)

\* C22 witness: the user's insert has returned after a split that started
\* inside the loop of another split
C22_Witness ==
    /\ stack = <<>>
    /\ op = "insert"
    /\ ret.splits >= 2
    /\ ret.moved >= 2
    /\ ADS_set_size(a) >= 2

====
